---- MODULE Spec2Model ----
(***************************************************************************)
(* A model of the CHIP-8 interpreter of src/src/main.rs: the machine       *)
(* state (memory, pc, i, v), the RGBA frame the handlers draw into, the    *)
(* six opcode handlers, fetch_opcode, execute_opcode, the program load and *)
(* the event loop of run.                                                  *)
(***************************************************************************)
EXTENDS Integers, Naturals, Sequences, FiniteSets, TLC

VARIABLES
    memory,           \* State.memory: [u8; 4096], held as its non-zero bytes
    pc,               \* State.pc: u16
    i,                \* State.i: u16
    v,                \* State.v: [u8; 16]
    frame,            \* pixels.frame_mut(): WIDTH*HEIGHT RGBA pixels, held as its non-zero pixels
    phase,            \* "start" | "running" | "exiting" | "aborted" | "ioerror"
    panic,            \* why the process panicked ("none" while it has not)
    opcode,           \* the word of the last cycle (the local of the redraw arm)
    handler,          \* the handler execute_opcode dispatched to in the last cycle
    cycles,           \* cycles started so far
    overflow_checks,  \* the build's integer-overflow checks (debug: on, release: off)
    program           \* the bytes read_program_into_memory read (none before it ran)

vars == <<memory, pc, i, v, frame, phase, panic, opcode, handler, cycles, overflow_checks,
          program>>

----------------------------------------------------------------------------
(* Program constants *)

WIDTH == 64
HEIGHT == 32
MemSize == 4096
NumRegs == 16
LoadAddr == 512

(* Bounds of the model *)

\* Longest program image, in 16-bit words.
MaxWords == 3
\* Cycles of a run of the whole program.
MaxCycles == 264
\* Opcodes executed in a run of the handlers.
MaxSteps == 3

----------------------------------------------------------------------------
(* u8 / u16 arithmetic *)

ShiftR(a, n) == a \div (2 ^ n)

RECURSIVE BitAnd(_, _)
BitAnd(a, b) ==
    IF a = 0 \/ b = 0 THEN 0
    ELSE (a % 2) * (b % 2) + 2 * BitAnd(a \div 2, b \div 2)

RECURSIVE BitOr(_, _)
BitOr(a, b) ==
    IF a = 0 THEN b
    ELSE IF b = 0 THEN a
    ELSE (IF a % 2 = 1 \/ b % 2 = 1 THEN 1 ELSE 0) + 2 * BitOr(a \div 2, b \div 2)

\* `x as u8`
AsU8(x) == x % 256

----------------------------------------------------------------------------
(* Pixels *)

UNLIT == <<0, 0, 0, 0>>
LIT == <<255, 255, 255, 255>>
\* What the else branch of display writes: R, G, B to 0, A to 0xFF.
BLACK == <<0, 0, 0, 255>>

NumPixels == WIDTH * HEIGHT
\* frame.len(): 4 bytes a pixel.
FrameLen == NumPixels * 4

(* The two big arrays are held sparsely: a function from the indices whose   *)
(* element is not the zero element to that element. Every index below the   *)
(* array's length is an element of the array; the bounds checks of the      *)
(* indexing are explicit where the code indexes.                            *)

\* An array of zero elements.
Zeroed == <<>>

\* arr[k], for k below the array's length.
At(arr, k, zero) == IF k \in DOMAIN arr THEN arr[k] ELSE zero

\* arr[k] = x, for k below the array's length.
Put(arr, k, x, zero) ==
    IF x = zero
    THEN [j \in (DOMAIN arr) \ {k} |-> arr[j]]
    ELSE [j \in (DOMAIN arr) \cup {k} |-> IF j = k THEN x ELSE arr[j]]

\* State::new
NewMemory == Zeroed
NewV == [r \in 0..(NumRegs - 1) |-> 0]
\* Pixels::new: a zeroed buffer
NewFrame == Zeroed

\* The machine and the frame as one value the handlers work on.
St == [memory |-> memory, pc |-> pc, i |-> i, v |-> v, frame |-> frame,
       panic |-> "none"]

----------------------------------------------------------------------------
(* Handlers *)

\* A clear_screen that writes no chunk.
clear_screen_keeping_frame(state) == state

\* Every 4-byte chunk of the frame to [0, 0, 0, 0].
clear_screen(state) == [state EXCEPT !.frame = Zeroed]

jump_to(state, op) == [state EXCEPT !.pc = BitAnd(op, 4095)]

\* The register index of set_vx, `opcode & 0x0F00 >> 8`: in Rust >> binds
\* tighter than &.
set_vx_x(op) == BitAnd(op, ShiftR(3840, 8))

\* The register index of add_vx, `(opcode & 0x0F00) >> 8`.
add_vx_x(op) == ShiftR(BitAnd(op, 3840), 8)

\* The register indices of display: of the x origin and of the y origin.
display_vx(op) == ShiftR(BitAnd(op, 3840), 8)
display_vy(op) == ShiftR(BitAnd(op, 240), 4)

set_vx(state, op) ==
    LET x == set_vx_x(op)
        value == AsU8(BitAnd(op, 255))
    IN [state EXCEPT !.v[x] = value]

\* `state.v[x] += value`: with overflow checks the addition panics on overflow,
\* without them it wraps.
add_vx(state, op, checks) ==
    LET x == add_vx_x(op)
        value == AsU8(BitAnd(op, 255))
        sum == state.v[x] + value
    IN IF sum > 255 /\ checks
       THEN [state EXCEPT !.panic = "add_overflow"]
       ELSE [state EXCEPT !.v[x] = sum % 256]

\* set_i without the mask of the address field.
set_i_unmasked(state, op) == [state EXCEPT !.i = op]

set_i(state, op) == [state EXCEPT !.i = BitAnd(op, 4095)]

\* The bit of a sprite row taken least significant bit first.
sprite_pixel_lsb_first(sprite_row, col) == BitAnd(ShiftR(sprite_row, col), 1)

\* The bit of a sprite row that column col draws: the most significant first.
sprite_pixel(sprite_row, col) == BitAnd(ShiftR(sprite_row, 7 - col), 1)

\* The loop over col of display, from column col on. d is [frame, vf, panic].
RECURSIVE display_cols(_, _, _, _, _)
display_cols(d, sprite_y, x, sprite_row, col) ==
    IF col = 8 THEN d
    ELSE
        LET sprite_x == x + col
            stride == WIDTH * 4
            pixel_index == (sprite_y * stride) + (sprite_x * 4)
            p == pixel_index \div 4
        IN IF sprite_pixel(sprite_row, col) = 0
           THEN display_cols(d, sprite_y, x, sprite_row, col + 1)
           ELSE IF pixel_index + 4 > FrameLen
           THEN [d EXCEPT !.panic = "frame_index"]
           ELSE IF At(d.frame, p, UNLIT) = UNLIT
           THEN display_cols([d EXCEPT !.frame = Put(d.frame, p, LIT, UNLIT), !.vf = 1],
                             sprite_y, x, sprite_row, col + 1)
           ELSE display_cols([d EXCEPT !.frame = Put(d.frame, p, BLACK, UNLIT)],
                             sprite_y, x, sprite_row, col + 1)

\* The loop over row of display, from row row on.
RECURSIVE display_rows(_, _, _, _, _, _, _)
display_rows(d, mem, ireg, x, y, rows, row) ==
    IF row = rows THEN d
    ELSE
        LET sprite_y == y + row
            addr == ireg + row
        IN IF addr >= MemSize
           THEN [d EXCEPT !.panic = "sprite_index"]
           ELSE LET e == display_cols(d, sprite_y, x, At(mem, addr, 0), 0)
                IN IF e.panic # "none" THEN e
                   ELSE display_rows(e, mem, ireg, x, y, rows, row + 1)

\* A display that leaves I behind the rows it drew.
display_advancing_i(state, op) ==
    LET x == state.v[display_vx(op)] % AsU8(WIDTH)
        y == state.v[display_vy(op)] % AsU8(HEIGHT)
        rows == BitAnd(op, 15)
        d == display_rows([frame |-> state.frame, vf |-> 0, panic |-> "none"],
                          state.memory, state.i, x, y, rows, 0)
    IN [state EXCEPT !.frame = d.frame, !.v[15] = d.vf, !.panic = d.panic,
                     !.i = state.i + rows]

display(state, op) ==
    LET x == state.v[display_vx(op)] % AsU8(WIDTH)
        y == state.v[display_vy(op)] % AsU8(HEIGHT)
        rows == BitAnd(op, 15)
        d == display_rows([frame |-> state.frame, vf |-> 0, panic |-> "none"],
                          state.memory, state.i, x, y, rows, 0)
    IN [state EXCEPT !.frame = d.frame, !.v[15] = d.vf, !.panic = d.panic]

----------------------------------------------------------------------------
(* The cycle *)

\* fetch_opcode with the two indices taken modulo the length of memory.
fetch_opcode_wrapping(mem, pcv) ==
    [ok |-> TRUE,
     opcode |-> BitOr((At(mem, pcv % MemSize, 0) * 256) % 65536,
                      At(mem, (pcv + 1) % MemSize, 0)),
     pc |-> pcv + 2]

\* [ok, opcode, pc]: ok is FALSE when indexing memory panics.
fetch_opcode(mem, pcv) ==
    IF pcv >= MemSize \/ pcv + 1 >= MemSize
    THEN [ok |-> FALSE, opcode |-> 0, pc |-> pcv]
    ELSE [ok |-> TRUE,
          opcode |-> BitOr((At(mem, pcv, 0) * 256) % 65536, At(mem, pcv + 1, 0)),
          pc |-> pcv + 2]

\* A dispatch that takes only 0x00E0 for clear_screen.
Decode_00E0_only(op) ==
    LET category == BitAnd(op, 61440)
    IN CASE category = 0 -> IF op = 224 THEN "clear_screen" ELSE "unimplemented"
         [] category = 4096 -> "jump_to"
         [] category = 24576 -> "set_vx"
         [] category = 28672 -> "add_vx"
         [] category = 40960 -> "set_i"
         [] category = 53248 -> "display"
         [] OTHER -> "unimplemented"

\* The handler a word is dispatched to ("unimplemented": unimplemented!()).
Decode(op) ==
    LET category == BitAnd(op, 61440)
    IN CASE category = 0 ->
                IF BitAnd(op, 15) = 0 THEN "clear_screen" ELSE "unimplemented"
         [] category = 4096 -> "jump_to"
         [] category = 24576 -> "set_vx"
         [] category = 28672 -> "add_vx"
         [] category = 40960 -> "set_i"
         [] category = 53248 -> "display"
         [] OTHER -> "unimplemented"

execute_opcode(op, state, checks) ==
    LET h == Decode(op)
    IN CASE h = "clear_screen" -> clear_screen(state)
         [] h = "jump_to" -> jump_to(state, op)
         [] h = "set_vx" -> set_vx(state, op)
         [] h = "add_vx" -> add_vx(state, op, checks)
         [] h = "set_i" -> set_i(state, op)
         [] h = "display" -> display(state, op)
         [] OTHER -> [state EXCEPT !.panic = "unimplemented"]

----------------------------------------------------------------------------
(* The program load *)

\* The loop over the bytes of the program: byte k (1-based) is written to
\* memory[0x200 + k - 1]; the first byte whose index is outside memory panics,
\* with the bytes before it written.
read_program_into_memory(bytes, mem) ==
    LET fits == IF Len(bytes) > MemSize - LoadAddr THEN MemSize - LoadAddr ELSE Len(bytes)
        written == LoadAddr..(LoadAddr + fits - 1)
        byte(a) == IF a \in written THEN bytes[a - LoadAddr + 1] ELSE mem[a]
        nonzero == {a \in (DOMAIN mem) \cup written : byte(a) # 0}
    IN [memory |-> [a \in nonzero |-> byte(a)],
        panic |-> IF Len(bytes) > fits THEN "load_index" ELSE "none"]

----------------------------------------------------------------------------
(* Inputs *)

\* The bytes of a sequence of 16-bit words, big-endian.
BytesOf(ws) ==
    [k \in 1..(2 * Len(ws)) |->
        IF k % 2 = 1 THEN ws[(k + 1) \div 2] \div 256 ELSE ws[k \div 2] % 256]

RECURSIVE SeqsUpTo(_, _)
SeqsUpTo(S, n) ==
    IF n = 0 THEN {<<>>}
    ELSE LET shorter == SeqsUpTo(S, n - 1)
         IN shorter \cup {Append(s, x) : s \in {t \in shorter : Len(t) = n - 1}, x \in S}

\* Words of the program images of a run of the whole program:
\* 00E0, 1200, 1FFC, 1FFF, A200, D011.
ProgWords == {224, 4608, 8188, 8191, 41472, 53265}

\* The images of at most MaxWords words, and the longest image that fits behind
\* the load address and the shortest that does not (of zero bytes).
ProgImages ==
    {BytesOf(ws) : ws \in SeqsUpTo(ProgWords, MaxWords)}
        \cup {[k \in 1..n |-> 0] : n \in {MemSize - LoadAddr, MemSize - LoadAddr + 1}}

\* The images the handlers are run on, as sprite rows: 0xF0; 0xFF, 0x81.
SpriteImages == {<<240>>, <<255, 129>>}

\* Words the handlers are run on:
\* 0000, 00E0, 00EE, 0230, 1200, 1FFF, 2000, 60FF, 6105, 6AFA, 7002, 703E,
\* 711F, 7A0A, A200, AFFF, D010, D011, D012, FFFF.
ExecWords ==
    {0, 224, 238, 560, 4608, 8191, 8192, 24831, 24837, 27386, 28674, 28734,
     28959, 31242, 41472, 45055, 53264, 53265, 53266, 65535}

----------------------------------------------------------------------------
(* The process *)

Init ==
    /\ memory = NewMemory
    /\ pc = 0
    /\ i = 0
    /\ v = NewV
    /\ frame = NewFrame
    /\ phase = "start"
    /\ panic = "none"
    /\ opcode = 0
    /\ handler = "none"
    /\ cycles = 0
    /\ overflow_checks \in BOOLEAN
    /\ program = <<>>

\* main: load a program of the set programs, then run; or print the I/O error.
main(programs) ==
    /\ phase = "start"
    /\ \/ \E bytes \in programs :
            \E r \in {read_program_into_memory(bytes, memory)} :
               /\ program' = bytes
               /\ memory' = r.memory
               /\ panic' = r.panic
               /\ phase' = IF r.panic = "none" THEN "running" ELSE "aborted"
       \/ /\ phase' = "ioerror"
          /\ UNCHANGED <<memory, panic, program>>
    /\ UNCHANGED <<pc, i, v, frame, opcode, handler, cycles, overflow_checks>>

\* The machine, the frame and the panic after a handler returned state r.
Executed(r) ==
    /\ memory' = r.memory
    /\ pc' = r.pc
    /\ i' = r.i
    /\ v' = r.v
    /\ frame' = r.frame
    /\ panic' = r.panic

\* A main that calls run whatever the load returned.
run_called_on_any_result == phase \in {"running", "ioerror"}

\* main calls run, and with it the closure of the event loop, in the Ok arm of
\* the load only.
run_called == phase = "running"

\* WindowEvent::RedrawRequested: one fetch, one execute, then render.
RedrawRequested ==
    /\ run_called
    /\ cycles < MaxCycles
    /\ cycles' = cycles + 1
    /\ UNCHANGED <<overflow_checks, program>>
    /\ \E f \in {fetch_opcode(memory, pc)} :
          IF ~f.ok
          THEN /\ phase' = "aborted"
               /\ panic' = "fetch_index"
               /\ handler' = "none"
               /\ UNCHANGED <<memory, pc, i, v, frame, opcode>>
          ELSE \E r \in {execute_opcode(f.opcode, [St EXCEPT !.pc = f.pc], overflow_checks)} :
                  /\ opcode' = f.opcode
                  /\ handler' = Decode(f.opcode)
                  /\ Executed(r)
                  /\ IF r.panic # "none"
                     THEN phase' = "aborted"
                     ELSE \E rendered \in BOOLEAN :
                            phase' = IF rendered THEN "running" ELSE "exiting"

\* WindowEvent::CloseRequested: elwt.exit().
CloseRequested ==
    /\ run_called
    /\ phase' = "exiting"
    /\ UNCHANGED <<memory, pc, i, v, frame, panic, opcode, handler, cycles, overflow_checks,
                   program>>

\* WindowEvent::KeyboardInput, the escape key released: elwt.exit().
EscapeReleased ==
    /\ run_called
    /\ phase' = "exiting"
    /\ UNCHANGED <<memory, pc, i, v, frame, panic, opcode, handler, cycles, overflow_checks,
                   program>>

\* Event::AboutToWait (window.request_redraw()) and every other event (`_ => ()`):
\* nothing of the machine or the frame is touched.
OtherEvent ==
    /\ run_called
    /\ UNCHANGED vars

Next ==
    \/ main(ProgImages)
    \/ RedrawRequested
    \/ CloseRequested
    \/ EscapeReleased
    \/ OtherEvent

Spec == Init /\ [][Next]_vars

\* execute_opcode on a word of ExecWords.
Execute(op) ==
    /\ phase = "running"
    /\ cycles < MaxSteps
    /\ cycles' = cycles + 1
    /\ \E r \in {execute_opcode(op, St, overflow_checks)} :
          /\ opcode' = op
          /\ handler' = Decode(op)
          /\ Executed(r)
          /\ phase' = IF r.panic # "none" THEN "aborted" ELSE "running"
    /\ UNCHANGED <<overflow_checks, program>>

NextExec == main(SpriteImages) \/ \E op \in ExecWords : Execute(op)

SpecExec == Init /\ [][NextExec]_vars

----------------------------------------------------------------------------
(* The fields of an instruction word, as the instruction set defines them *)

FieldX(w) == (w \div 256) % 16
FieldY(w) == (w \div 16) % 16
FieldN(w) == w % 16
FieldNN(w) == w % 256
FieldNNN(w) == w % 4096

\* This step is a cycle that dispatched to handler h.
Ran(h) == cycles' = cycles + 1 /\ handler' = h

\* Pixel p of a frame.
Pixel(fr, p) == At(fr, p, UNLIT)

\* The pixels two frames differ in.
Changed(fr, gr) == {p \in (DOMAIN fr) \cup (DOMAIN gr) : Pixel(fr, p) # Pixel(gr, p)}

----------------------------------------------------------------------------
(* Claims *)

\* C1: executing a word 0x6XNN leaves registers[X] = NN, X being bits 11-8 of
\* the word, and leaves every other register, I, memory and the display
\* unchanged.
C1_SetRegister ==
    [][Ran("set_vx") =>
          /\ v' = [v EXCEPT ![FieldX(opcode')] = FieldNN(opcode')]
          /\ UNCHANGED <<i, memory, frame>>]_vars

\* C2: executing a word 0x7XNN leaves registers[X] = (old registers[X] + NN)
\* mod 256 and never fails on overflow; so 0x6XAA followed by 0x7XBB on the
\* same X leaves registers[X] = (AA + BB) mod 256.
C2_AddRegister ==
    [][Ran("add_vx") =>
          LET x == FieldX(opcode')
          IN /\ phase' # "aborted"
             /\ v' = [v EXCEPT ![x] = (v[x] + FieldNN(opcode')) % 256]
             /\ (handler = "set_vx" /\ FieldX(opcode) = x)
                   => v'[x] = (FieldNN(opcode) + FieldNN(opcode')) % 256]_vars

\* C3: a draw ends with VF = 1 if and only if at least one sprite bit flipped
\* a previously lit pixel to unlit, and with VF = 0 otherwise; a draw onto an
\* all-unlit display ends with VF = 0.
C3_CollisionFlag ==
    [][(Ran("display") /\ panic' = "none") =>
          /\ v'[15] \in {0, 1}
          /\ v'[15] = 1 <=> \E p \in DOMAIN frame : frame[p] = LIT /\ Pixel(frame', p) # LIT
          /\ (frame = Zeroed => v'[15] = 0)]_vars

\* The origin of the sprite of a draw word w with registers vv.
OriginX(vv, w) == vv[FieldX(w)] % WIDTH
OriginY(vv, w) == vv[FieldY(w)] % HEIGHT

\* The sprite of draw word w lies inside the grid.
OnGrid(vv, w) == OriginX(vv, w) + 8 <= WIDTH /\ OriginY(vv, w) + FieldN(w) <= HEIGHT

\* The rows of the sprite of draw word w lie inside memory.
InMemory(ii, w) == ii + FieldN(w) <= MemSize

\* Bit (7 - col) of sprite row row: the most significant bit is column 0.
SpriteBit(mem, ii, row, col) == (At(mem, ii + row, 0) \div (2 ^ (7 - col))) % 2

\* C4: executing the same draw word twice in succession, the sprite inside the
\* grid and I, memory and the origin registers unchanged, restores the display
\* to its state before the first draw, and the second draw ends with VF = 1
\* whenever the first draw lit a pixel.
C4_DoubleDraw ==
    [][(/\ Ran("display")
        /\ panic' = "none"
        /\ OnGrid(v, opcode') /\ InMemory(i, opcode')
        /\ OriginX(v', opcode') = OriginX(v, opcode')
        /\ OriginY(v', opcode') = OriginY(v, opcode')) =>
          LET again == display([memory |-> memory', pc |-> pc', i |-> i', v |-> v',
                                frame |-> frame', panic |-> "none"], opcode')
          IN /\ again.panic = "none"
             /\ again.frame = frame
             /\ (\E p \in DOMAIN frame' : frame'[p] = LIT /\ Pixel(frame, p) # LIT)
                   => again.v[15] = 1]_vars

\* C5: every pixel of the frame is lit, (FF,FF,FF,FF), or unlit, (00,00,00,00),
\* in every reachable state.
C5_TwoStatePixels == \A p \in DOMAIN frame : frame[p] \in {LIT, UNLIT}

\* The handler the instruction set gives word w: clear-screen for 0x00E0 only.
ClaimedHandler(w) ==
    IF w = 224 THEN "clear_screen"
    ELSE CASE w \div 4096 = 1 -> "jump_to"
           [] w \div 4096 = 6 -> "set_vx"
           [] w \div 4096 = 7 -> "add_vx"
           [] w \div 4096 = 10 -> "set_i"
           [] w \div 4096 = 13 -> "display"
           [] OTHER -> "unimplemented"

\* C6: execute runs clear-screen iff the word is 0x00E0, jump iff 0x1NNN,
\* set-register iff 0x6XNN, add-register iff 0x7XNN, set-address iff 0xANNN,
\* draw-sprite iff 0xDXYN; any other word, 0x0000 included, runs no handler
\* and is a fatal abort.
C6_DecoderTotality ==
    handler # "none" =>
        /\ handler = ClaimedHandler(opcode)
        /\ handler = "unimplemented" => (phase = "aborted" /\ panic = "unimplemented")

\* C7: a draw whose sprite extends past the right or the bottom edge flips no
\* pixel other than those of its set bits taken modulo the grid (wrap) or
\* dropped (clip), and never aborts on an index outside the frame.
C7_OutOfRange ==
    [][(Ran("display") /\ ~OnGrid(v, opcode') /\ InMemory(i, opcode')) =>
          /\ panic' # "frame_index"
          /\ Changed(frame, frame') \subseteq
                {((OriginX(v, opcode') + col) % WIDTH)
                    + WIDTH * ((OriginY(v, opcode') + row) % HEIGHT) :
                    <<row, col>> \in {rc \in (0..(FieldN(opcode') - 1)) \X (0..7) :
                                        SpriteBit(memory, i, rc[1], rc[2]) = 1}}]_vars

\* C8: at each fetch program_counter and program_counter + 1 are valid memory
\* indices, and each fetch advances program_counter by exactly 2.
C8_PcInvariant ==
    [][cycles' = cycles + 1 =>
          /\ pc + 1 <= MemSize - 1
          /\ handler' # "jump_to" => pc' = pc + 2]_vars

\* C9: a fetch attempted with program_counter + 1 > 4095 ends the cycle in a
\* fatal abort: no opcode is returned and executed, and program_counter, the
\* registers, I, memory and the frame are left as they were.
C9_FetchFailsLoudly ==
    [][(cycles' = cycles + 1 /\ pc + 1 > MemSize - 1) =>
          /\ phase' = "aborted"
          /\ panic' = "fetch_index"
          /\ handler' = "none"
          /\ UNCHANGED <<pc, v, i, memory, frame, opcode>>]_vars

\* A cycle failed its fetch at the last byte of memory or past it.
C9_Witness == phase = "aborted" /\ panic = "fetch_index" /\ pc + 1 > MemSize - 1

\* C10: the register indices the handlers use lie in 0..15 and the memory
\* addresses draw-sprite reads lie in 0..4095, so no cycle aborts on an
\* out-of-range register or memory index.
C10_BoundedIndexing ==
    /\ handler = "set_vx" => set_vx_x(opcode) \in 0..(NumRegs - 1)
    /\ handler = "add_vx" => add_vx_x(opcode) \in 0..(NumRegs - 1)
    /\ handler = "display" =>
          {display_vx(opcode), display_vy(opcode)} \subseteq 0..(NumRegs - 1)
    /\ panic # "sprite_index"

\* The instruction word at address a of memory, high byte first.
WordAt(mem, a) == (At(mem, a, 0) * 256) + At(mem, a + 1, 0)

\* C11: executing a word 0x1NNN sets pc to exactly NNN, whatever pc was, and
\* changes nothing else, and the cycle after it fetches its word from
\* memory[NNN] and memory[NNN+1].
C11_Jump ==
    [][/\ Ran("jump_to") =>
             /\ pc' = FieldNNN(opcode')
             /\ UNCHANGED <<i, v, memory, frame>>
       /\ (handler = "jump_to" /\ cycles' = cycles + 1) =>
             /\ pc = FieldNNN(opcode)
             /\ handler' # "none"
             /\ opcode' = WordAt(memory, FieldNNN(opcode))]_vars

\* The pixels a draw of word w lights on an unlit display: (x0 + col, y0 + row)
\* for every set bit (7 - col) of memory[I + row].
SpritePixels(mem, ii, vv, w) ==
    {(OriginX(vv, w) + col) + (WIDTH * (OriginY(vv, w) + row)) :
        <<row, col>> \in {rc \in (0..(FieldN(w) - 1)) \X (0..7) :
                             SpriteBit(mem, ii, rc[1], rc[2]) = 1}}

\* C12: a draw on an all-unlit display, the sprite inside the grid and its rows
\* inside memory, leaves pixel (x0 + col, y0 + row) lit exactly when bit
\* (7 - col) of memory[I + row] is 1, x0 = registers[X] mod 64 and
\* y0 = registers[Y] mod 32, and every other pixel unlit.
C12_DrawPlacement ==
    [][(Ran("display") /\ frame = Zeroed /\ OnGrid(v, opcode') /\ InMemory(i, opcode')) =>
          /\ panic' = "none"
          /\ frame' = [p \in SpritePixels(memory, i, v, opcode') |-> LIT]]_vars

\* A draw of the one-row sprite 0xFF has lit row 31 from column 0 to column 7.
C12_Witness ==
    /\ handler = "display"
    /\ opcode = 53265
    /\ v[1] = 31
    /\ frame = [p \in (31 * WIDTH)..((31 * WIDTH) + 7) |-> LIT]

\* C14: executing a word 0xANNN sets I to exactly NNN and changes nothing else,
\* and I is at most 0x0FFF in every reachable state.
C14_SetAddress ==
    [][/\ i <= 4095 /\ i' <= 4095
       /\ Ran("set_i") =>
             /\ i' = FieldNNN(opcode')
             /\ UNCHANGED <<pc, v, memory, frame, panic>>]_vars

\* A set-address of the largest address has run.
C14_Witness == handler = "set_i" /\ opcode = 45055 /\ i = 4095

\* C13: a cycle that fetches 0x00E0 leaves every pixel unlit, whatever the
\* display held, advances pc by exactly 2, and leaves I, the 16 registers and
\* memory unchanged.
C13_ClearScreen ==
    [][(cycles' = cycles + 1 /\ handler' # "none" /\ opcode' = 224) =>
          /\ handler' = "clear_screen"
          /\ panic' = "none"
          /\ \A p \in 0..(NumPixels - 1) : Pixel(frame', p) = UNLIT
          /\ pc' = pc + 2
          /\ UNCHANGED <<i, v, memory>>]_vars

\* The image A200 D011 00E0: the third word was fetched from 0x204 after the
\* second drew the row 0xA2 at the origin.
C13_Witness ==
    /\ program = BytesOf(<<41472, 53265, 224>>)
    /\ cycles = 259
    /\ opcode = 224
    /\ pc = LoadAddr + 6
    /\ frame = Zeroed

\* C15: a load that read its image leaves memory[0x200 + k] = byte k of the
\* image for every k below its length and every other byte 0, leaves pc, I and
\* the registers zero, and never aborts, whatever the length of the image.
C15_ProgramLoad ==
    [][(phase = "start" /\ phase' # "ioerror") =>
          /\ phase' = "running"
          /\ panic' = "none"
          /\ \A k \in 1..Len(program') : At(memory', LoadAddr + (k - 1), 0) = program'[k]
          /\ DOMAIN memory' \subseteq LoadAddr..(LoadAddr + Len(program') - 1)
          /\ pc' = 0 /\ i' = 0 /\ v' = NewV]_vars

\* C16: when the image cannot be read the process ends with the I/O error: the
\* machine is as constructed, no cycle has run, and nothing runs afterwards.
C16_LoadFailure ==
    [][/\ phase # "ioerror"
       /\ phase' = "ioerror" =>
             /\ phase = "start"
             /\ cycles' = 0 /\ handler' = "none" /\ panic' = "none"
             /\ memory' = NewMemory /\ pc' = 0 /\ i' = 0 /\ v' = NewV
             /\ frame' = NewFrame]_vars

\* The load has failed.
C16_Witness == phase = "ioerror" /\ cycles = 0 /\ program = <<>>

\* C17: every redraw event triggers exactly one fetch followed by exactly one
\* execute, no other event triggers a fetch or an execute, and so after k
\* redraw events exactly k instructions have been fetched. (handler is "none"
\* after a redraw event whose fetch returned no word.)
C17_OneCyclePerRedraw ==
    [][/\ cycles' = cycles + 1 =>
             /\ handler' # "none"
             /\ opcode' = WordAt(memory, pc)
             /\ handler' = Decode(opcode')
       /\ (run_called /\ cycles' = cycles) =>
             UNCHANGED <<pc, i, v, memory, frame, opcode, handler, panic>>]_vars

\* C19: a draw changes only pixels and VF; jump, set-register, add-register
\* and set-address change no pixel; no handler changes a byte of memory.
C19_FrameEffects ==
    [][/\ Ran("display") =>
             /\ UNCHANGED <<memory, i, pc>>
             /\ \A r \in 0..(NumRegs - 2) : v'[r] = v[r]
       /\ (cycles' = cycles + 1 /\ handler' \in {"jump_to", "set_vx", "add_vx", "set_i"}) =>
             frame' = frame
       /\ cycles' = cycles + 1 => memory' = memory]_vars

\* A draw has lit pixels of a sprite it read at I = 0x200 and set VF.
C19_Witness ==
    /\ handler = "display"
    /\ i = LoadAddr
    /\ memory # NewMemory
    /\ frame # Zeroed
    /\ v[15] = 1

\* C20: after a load the first 256 cycles fetch 0x0000 from 0x000, 0x002, ...,
\* 0x1FE, each executed as clear-screen without an abort and without a change
\* of a register, of I or of memory; pc is 0x200 after exactly 256 cycles and
\* the first word of the image is the 257th instruction executed.
C20_StartupPath ==
    (phase \in {"running", "exiting", "aborted"} /\ panic # "load_index") =>
        /\ cycles <= 256 =>
              /\ pc = 2 * cycles
              /\ cycles >= 1 => (opcode = 0 /\ handler = "clear_screen")
              /\ phase # "aborted" /\ panic = "none"
              /\ i = 0 /\ v = NewV
              /\ memory = read_program_into_memory(program, NewMemory).memory
        /\ cycles = 257 =>
              /\ handler # "none"
              /\ opcode = WordAt(read_program_into_memory(program, NewMemory).memory,
                                 LoadAddr)

\* The first word of the image A200 ran as instruction 257.
C20_Witness ==
    /\ cycles = 257
    /\ program = BytesOf(<<41472>>)
    /\ handler = "set_i"
    /\ i = LoadAddr
    /\ pc = LoadAddr + 2

====
